---- MODULE Spec2Model ----
(***************************************************************************)
(* The Kafka wire codec of rust-kafka: KafkaSerializable (encode, decode,  *)
(* size) for the primitives, strings, byte arrays, vectors, WithSize       *)
(* frames, the structs of kafka_datastructures!, the request and response  *)
(* envelopes, and Error::from_i64.                                         *)
(*                                                                         *)
(* Values:  an integer is an Int; a String is the sequence of its UTF-8    *)
(* bytes; a Vec is a sequence; Option is <<>> (None) or <<x>> (Some(x));   *)
(* a struct is the tuple of its fields in declared order; the newtypes     *)
(* WithSize(x) and RequestOrResponse(x) are x.                             *)
(* Types:   <<"i8">>, <<"String">>, <<"Vec", T>>, <<"WithSize", T>>,       *)
(* <<"Broker">>, <<"RequestMessage", T>>, ...                              *)
(* TLC's integers are 32 bits wide: i64 values are taken from that range.  *)
(***************************************************************************)
EXTENDS Integers, Sequences, FiniteSets, TLC

VARIABLES
    src,     \* the source file whose impls are run: "protocol" or "types"
    ty,      \* the type T the value is encoded as and decoded into
    val,     \* the value under test
    pc,      \* "init", "encoded", "done"
    op,      \* the operation that produced res
    wire,    \* the MemWriter's bytes after encode
    sized,   \* what val.size() returned
    input,   \* the bytes handed to decode
    arg,     \* what the operation changed in the input (length, key, ...)
    res      \* the outcome of the operation

vars == <<src, ty, val, pc, op, wire, sized, input, arg, res>>

----------------------------------------------------------------------------
(* Bounds of the model *)

\* longest generated string, in characters
MaxLen == 2
\* longest generated Vec<u8>
MaxBytes == 2
\* longest generated Vec<T>
MaxVec == 2
\* number of sample values generated per composite type
NSamples == 3
\* stand-in for 2^64 (uint's modulus): n as uint is UintModulus + n for n < 0
UintModulus == 1000000

----------------------------------------------------------------------------
(* Types *)

I8 == <<"i8">>
I16 == <<"i16">>
I32 == <<"i32">>
I64 == <<"i64">>
Str == <<"String">>
OptStr == <<"Option<String>">>
Bytes == <<"Vec<u8>">>
OptBytes == <<"Option<Vec<u8>>">>
VecOf(t) == <<"Vec", t>>
WithSizeOf(t) == <<"WithSize", t>>
St(name) == <<name>>
RequestMessageOf(t) == <<"RequestMessage", t>>
ResponseMessageOf(t) == <<"ResponseMessage", t>>
RequestOrResponseOf(t) == <<"RequestOrResponse", t>>

\* kafka_datastructures!: each struct's fields, in declared order
Fields ==
    [ MetadataRequest |-> << <<"topic_names", VecOf(Str)>> >>,
      Broker |-> << <<"node_id", I32>>, <<"host", Str>>, <<"port", I32>> >>,
      Message |-> << <<"crc", I32>>, <<"magic_byte", I8>>, <<"attributes", I8>>,
                     <<"key", OptBytes>>, <<"value", OptBytes>> >>,
      MessageSetElement |-> << <<"offset", I64>>,
                               <<"message", WithSizeOf(St("Message"))>> >>,
      MessageSet |-> << <<"messages", VecOf(St("MessageSetElement"))>> >>,
      PartitionMetadata |-> << <<"error_code", I16>>, <<"partition", I32>>,
                               <<"leader", I32>>, <<"replicas", VecOf(I32)>>,
                               <<"isr", VecOf(I32)>> >>,
      TopicMetadata |-> << <<"error_code", I16>>, <<"name", Str>>,
                           <<"partitions", VecOf(St("PartitionMetadata"))>> >>,
      MetadataResponse |-> << <<"brokers", VecOf(St("Broker"))>>,
                              <<"topics", VecOf(St("TopicMetadata"))>> >>,
      ProduceRequestPartition |-> << <<"partition", I32>>,
                                     <<"message_set", WithSizeOf(St("MessageSet"))>> >>,
      ProduceRequestTopic |-> << <<"name", Str>>,
                                 <<"partitions", VecOf(St("ProduceRequestPartition"))>> >>,
      ProduceRequest |-> << <<"required_acks", I16>>, <<"timeout", I32>>,
                            <<"topics", VecOf(St("ProduceRequestTopic"))>> >>,
      ProduceResponsePartition |-> << <<"partition", I32>>, <<"error_code", I16>>,
                                      <<"offset", I64>> >>,
      ProduceResponseTopic |-> << <<"name", Str>>,
                                  <<"partitions", VecOf(St("ProduceResponsePartition"))>> >>,
      ProduceResponse |-> << <<"topics", VecOf(St("ProduceResponseTopic"))>> >>,
      OffsetRequestPartition |-> << <<"partition", I32>>, <<"time", I64>>,
                                    <<"max_number_of_offsets", I32>> >>,
      OffsetRequestTopic |-> << <<"name", Str>>,
                                <<"partitions", VecOf(St("OffsetRequestPartition"))>> >>,
      OffsetRequest |-> << <<"replica_id", I32>>,
                           <<"requests", VecOf(St("OffsetRequestTopic"))>> >>,
      PartitionOffset |-> << <<"partition", I32>>, <<"error_code", I16>>,
                             <<"offset", I64>> >>,
      OffsetResponseTopic |-> << <<"name", Str>>,
                                 <<"partitions", VecOf(St("PartitionOffset"))>> >>,
      OffsetResponse |-> << <<"responses", VecOf(St("OffsetResponseTopic"))>> >>,
      FetchRequestPartition |-> << <<"partition", I32>>, <<"fetch_offset", I64>>,
                                   <<"max_bytes", I32>> >>,
      FetchRequestTopic |-> << <<"name", Str>>,
                               <<"partitions", VecOf(St("FetchRequestPartition"))>> >>,
      FetchRequest |-> << <<"replica_id", I32>>, <<"max_wait_time", I32>>,
                          <<"min_bytes", I32>>,
                          <<"elements", VecOf(St("FetchRequestTopic"))>> >>,
      FetchResponsePartition |-> << <<"partition", I32>>, <<"error_code", I16>>,
                                    <<"highwater_mark_offset", I64>>,
                                    <<"messages", WithSizeOf(St("MessageSet"))>> >>,
      FetchResponseTopic |-> << <<"name", Str>>,
                                <<"partitions", VecOf(St("FetchResponsePartition"))>> >>,
      FetchResponse |-> << <<"topics", VecOf(St("FetchResponseTopic"))>> >>,
      ConsumerMetadataRequest |-> << <<"group", Str>> >>,
      ConsumerMetadataResponse |-> << <<"error_code", I16>>, <<"coordinator_id", I32>>,
                                      <<"coordinator_host", Str>>,
                                      <<"coordinator_port", I32>> >>,
      OffsetCommitRequestPartition |-> << <<"partition", I32>>, <<"offset", I64>>,
                                          <<"timestamp", I64>>, <<"metadata", Str>> >>,
      OffsetCommitRequestTopic |-> << <<"name", Str>>,
                                      <<"partitions", VecOf(St("OffsetCommitRequestPartition"))>> >>,
      OffsetCommitRequest |-> << <<"consumer_group", Str>>,
                                 <<"topics", VecOf(St("OffsetCommitRequestTopic"))>> >>,
      OffsetCommitResponseTopic |-> << <<"name", Str>>, <<"partitions", VecOf(I32)>> >>,
      OffsetCommitResponse |-> << <<"topics", VecOf(St("OffsetCommitResponseTopic"))>> >>,
      OffsetFetchRequestTopic |-> << <<"name", Str>>, <<"partitions", VecOf(I32)>> >>,
      OffsetFetchRequest |-> << <<"consumer_group", Str>>,
                                <<"topics", St("OffsetFetchRequestTopic")>> >>,
      OffsetFetchResponsePartition |-> << <<"partition", I32>>, <<"offset", I64>>,
                                          <<"metadata", Str>>, <<"error_code", I16>> >>,
      OffsetFetchResponseTopic |-> << <<"name", Str>>,
                                      <<"partitions", VecOf(St("OffsetFetchResponsePartition"))>> >>,
      OffsetFetchResponse |-> << <<"topics", VecOf(St("OffsetFetchResponseTopic"))>> >> ]

StructNames == DOMAIN Fields
IsStruct(t) == t[1] \in StructNames
FieldType(t, i) == Fields[t[1]][i][2]
NFields(t) == Len(Fields[t[1]])

\* impl Request for ...: the api key of each request type
api_key(t) ==
    CASE t[1] = "ProduceRequest" -> 0
      [] t[1] = "FetchRequest" -> 1
      [] t[1] = "OffsetRequest" -> 2
      [] t[1] = "MetadataRequest" -> 3
      [] t[1] = "OffsetCommitRequest" -> 8
      [] t[1] = "OffsetFetchRequest" -> 9
      [] t[1] = "ConsumerMetadataRequest" -> 10

RequestTypes ==
    { St("ProduceRequest"), St("FetchRequest"), St("OffsetRequest"),
      St("MetadataRequest"), St("OffsetCommitRequest"), St("OffsetFetchRequest"),
      St("ConsumerMetadataRequest") }

\* impl Response for ...
ResponseTypes ==
    { St("ProduceResponse"), St("FetchResponse"), St("OffsetResponse"),
      St("MetadataResponse"), St("OffsetFetchResponse"), St("OffsetCommitResponse"),
      St("ConsumerMetadataResponse") }

----------------------------------------------------------------------------
(* Integers on the wire: big-endian two's complement *)

Pow256(k) == CASE k = 0 -> 1 [] k = 1 -> 256 [] k = 2 -> 65536 [] k = 3 -> 16777216

\* byte k (0 = least significant) of v in two's complement; \div rounds down,
\* so it is the arithmetic shift; above 32 bits only the sign is left
ByteAt(v, k) == IF k <= 3 THEN (v \div Pow256(k)) % 256 ELSE IF v < 0 THEN 255 ELSE 0

\* write_i8, write_be_i16, write_be_i32, write_be_i64: w bytes, most significant first
WriteLE(v, w) == [i \in 1..w |-> ByteAt(v, i - 1)]

WriteBE(v, w) == [i \in 1..w |-> ByteAt(v, w - i)]

RECURSIVE FoldBE(_, _)
FoldBE(acc, bytes) ==
    IF bytes = <<>> THEN acc ELSE FoldBE(acc * 256 + Head(bytes), Tail(bytes))

\* read_i8, read_be_i16, ...: the signed value of the bytes
ReadBE(bytes) ==
    FoldBE(IF Head(bytes) >= 128 THEN Head(bytes) - 256 ELSE Head(bytes), Tail(bytes))

\* self.len() as i16
AsI16(n) == LET u == n % 65536 IN IF u >= 32768 THEN u - 65536 ELSE u

\* self.len() as i32 (lengths of the model are far from 2^31)
AsI32(n) == n

\* size as uint
AsUint(n) == IF n < 0 THEN UintModulus + n ELSE n

Width(t) == CASE t[1] = "i8" -> 1 [] t[1] = "i16" -> 2 [] t[1] = "i32" -> 4 [] t[1] = "i64" -> 8
IsPrim(t) == t[1] \in {"i8", "i16", "i32", "i64"}

----------------------------------------------------------------------------
(* size *)

\* impl KafkaSerializable for String: size, with the length prefix forgotten
StringSizeNoPrefix(s) == Len(s)

\* (0i16).size() + (self.as_bytes().len() as i32)
StringSize(s) == 2 + AsI32(Len(s))

\* Option<String>::size
OptionStringSize(o) == 2 + (IF o = <<>> THEN 0 ELSE AsI32(Len(o[1])))

\* Vec<u8>::size
VecU8Size(v) == 4 + AsI32(Len(v))

\* Option<Vec<u8>>::size
OptionVecU8Size(o) == 4 + (IF o = <<>> THEN 0 ELSE AsI32(Len(o[1])))

\* WithSize<T>::size, from the payload's size
WithSizeSize(inner) == 4 + inner

\* RequestOrResponse<T>::size, from the envelope's size
RequestOrResponseSize(inner) == 4 + inner

\* RequestMessage<T>::size, from the sizes of client_id and request_message
RequestMessageSize(client, message) == 2 + 2 + 4 + client + message

\* ResponseMessage<T>::size, from the size of response
ResponseMessageSize(response) == 4 + response

RECURSIVE Size(_, _), SizeFold(_, _, _), SizeFields(_, _, _, _)

\* self.iter().fold(acc, |sum, element| sum + element.size())
SizeFold(t, elems, acc) ==
    IF elems = <<>> THEN acc ELSE SizeFold(t, Tail(elems), acc + Size(t, Head(elems)))

\* [self.f1.size(), ...].iter().fold(0, |acc, element| acc + *element), from field i on
SizeFields(t, v, i, acc) ==
    IF i > NFields(t) THEN acc
    ELSE SizeFields(t, v, i + 1, acc + Size(FieldType(t, i), v[i]))

Size(t, v) ==
    CASE IsPrim(t) -> Width(t)
      [] t[1] = "String" -> StringSize(v)
      [] t[1] = "Option<String>" -> OptionStringSize(v)
      [] t[1] = "Vec<u8>" -> VecU8Size(v)
      [] t[1] = "Option<Vec<u8>>" -> OptionVecU8Size(v)
      [] t[1] = "Vec" -> SizeFold(t[2], v, 4)
      [] t[1] = "WithSize" -> WithSizeSize(Size(t[2], v))
      [] t[1] = "RequestOrResponse" -> RequestOrResponseSize(Size(t[2], v))
      [] t[1] = "RequestMessage" ->
            RequestMessageSize(Size(Str, v[2]), Size(t[2], v[3]))
      [] t[1] = "ResponseMessage" -> ResponseMessageSize(Size(t[2], v[2]))
      [] IsStruct(t) -> SizeFields(t, v, 1, 0)

----------------------------------------------------------------------------
(* encode: the bytes the writer receives *)

\* String::encode with size() written where the length belongs
StringEncodeSizePrefix(s) == WriteBE(AsI16(StringSize(s)), 2) \o s

\* String::encode
StringEncode(s) == WriteBE(AsI16(Len(s)), 2) \o s

\* Option<String>::encode, with None written as an empty string
OptionStringEncodeNoSentinel(o) ==
    IF o = <<>> THEN WriteBE(0, 2) ELSE WriteBE(AsI16(Len(o[1])), 2) \o o[1]

\* Option<String>::encode
OptionStringEncode(o) ==
    IF o = <<>> THEN WriteBE(-1, 2) ELSE WriteBE(AsI16(Len(o[1])), 2) \o o[1]

\* Vec<u8>::encode
VecU8Encode(v) == WriteBE(AsI32(Len(v)), 4) \o v

\* Option<Vec<u8>>::encode
OptionVecU8Encode(o) ==
    IF o = <<>> THEN WriteBE(-1, 4) ELSE WriteBE(AsI32(Len(o[1])), 4) \o o[1]

RECURSIVE Encode(_, _), EncodeAll(_, _), EncodeFields(_, _, _)

\* for element in self.iter() { try!(element.encode(writer)) }
EncodeAll(t, elems) ==
    IF elems = <<>> THEN <<>> ELSE Encode(t, Head(elems)) \o EncodeAll(t, Tail(elems))

RECURSIVE EncodeFieldsReversed(_, _, _)
\* the fields encoded last to first
EncodeFieldsReversed(t, v, i) ==
    IF i > NFields(t) THEN <<>>
    ELSE EncodeFieldsReversed(t, v, i + 1) \o Encode(FieldType(t, i), v[i])

\* $(try!(self.$name.encode(writer)));+ from field i on
EncodeFields(t, v, i) ==
    IF i > NFields(t) THEN <<>>
    ELSE Encode(FieldType(t, i), v[i]) \o EncodeFields(t, v, i + 1)

Encode(t, v) ==
    CASE IsPrim(t) -> WriteBE(v, Width(t))
      [] t[1] = "String" -> StringEncode(v)
      [] t[1] = "Option<String>" -> OptionStringEncode(v)
      [] t[1] = "Vec<u8>" -> VecU8Encode(v)
      [] t[1] = "Option<Vec<u8>>" -> OptionVecU8Encode(v)
      [] t[1] = "Vec" -> WriteBE(AsI32(Len(v)), 4) \o EncodeAll(t[2], v)
      [] t[1] = "WithSize" -> WriteBE(Size(t[2], v), 4) \o Encode(t[2], v)
      [] t[1] = "RequestOrResponse" -> Encode(I32, Size(t[2], v)) \o Encode(t[2], v)
      [] t[1] = "RequestMessage" ->
            WriteBE(api_key(t[2]), 2) \o WriteBE(0, 2) \o Encode(I32, v[1])
                \o Encode(Str, v[2]) \o Encode(t[2], v[3])
      [] t[1] = "ResponseMessage" -> Encode(I32, v[1]) \o Encode(t[2], v[2])
      [] IsStruct(t) -> EncodeFields(t, v, 1)

----------------------------------------------------------------------------
(* Readers.  A reader is the buffer buf, the position rd.pos (the number   *)
(* of bytes consumed) and the position end it may read up to: the end of   *)
(* a MemReader's buffer, or where the innermost LimitReader's limit runs   *)
(* out.  rd.log lists the sizes of the reads requested so far.  An         *)
(* outcome is "ok" (Ok(val[1])), "err" (an Err(IoError) returned), "panic" *)
(* (a failed assertion unwinds the task) or "abort" (allocation failure).  *)

Min(a, b) == IF a <= b THEN a ELSE b

Ok(v, rd) == [kind |-> "ok", val |-> <<v>>, pos |-> rd.pos, log |-> rd.log, desc |-> ""]

Fail(kind, desc, rd) ==
    [kind |-> kind, val |-> <<>>, pos |-> rd.pos, log |-> rd.log, desc |-> desc]

Rd(r) == [pos |-> r.pos, log |-> r.log]

NewReader == [pos |-> 0, log |-> <<>>]

\* Reader::read_at_least on a MemReader or LimitReader: n bytes, or the bytes
\* left and then Err(EndOfFile)
Read(buf, rd, end, n) ==
    LET log == Append(rd.log, n) IN
    IF rd.pos + n <= end
    THEN Ok(SubSeq(buf, rd.pos + 1, rd.pos + n), [pos |-> rd.pos + n, log |-> log])
    ELSE Fail("err", "EndOfFile", [pos |-> end, log |-> log])

\* allocate(): a request of the size a negative length casts to cannot be met
CanAllocate(n) == n < UintModulus \div 2

\* Reader::read_exact(len): Vec::with_capacity(len), then push_at_least(len, len)
ReadExact(buf, rd, end, n) ==
    IF n = 0 THEN Ok(<<>>, [pos |-> rd.pos, log |-> Append(rd.log, n)])
    ELSE IF ~CanAllocate(n)
    THEN Fail("abort", "out of memory", [pos |-> rd.pos, log |-> Append(rd.log, n)])
    ELSE Read(buf, rd, end, n)

\* read_i8, read_be_i16, read_be_i32, read_be_i64
ReadInt(buf, rd, end, w) ==
    LET r == Read(buf, rd, end, w) IN
    IF r.kind # "ok" THEN r ELSE Ok(ReadBE(r.val[1]), Rd(r))

\* Vec::<T>::with_capacity(n): "ok", "panic" (capacity overflow: n * size_of::<T>()
\* overflows uint) or "abort" (out of memory); size_of is 1 for i8 alone
WithCapacity(t, n) ==
    IF n = 0 \/ CanAllocate(n) THEN "ok"
    ELSE IF t[1] = "i8" THEN "abort" ELSE "panic"

Cont(b) == b >= 128 /\ b <= 191

RECURSIVE IsUtf8(_)
\* String::from_utf8(buffer).is_ok()
IsUtf8(b) ==
    IF b = <<>> THEN TRUE
    ELSE LET c == b[1]
             n == Len(b) IN
         IF c < 128 THEN IsUtf8(Tail(b))
         ELSE IF c >= 194 /\ c <= 223
         THEN n >= 2 /\ Cont(b[2]) /\ IsUtf8(SubSeq(b, 3, n))
         ELSE IF c >= 224 /\ c <= 239
         THEN /\ n >= 3
              /\ Cont(b[2])
              /\ (c = 224 => b[2] >= 160)
              /\ (c = 237 => b[2] <= 159)
              /\ Cont(b[3])
              /\ IsUtf8(SubSeq(b, 4, n))
         ELSE IF c >= 240 /\ c <= 244
         THEN /\ n >= 4
              /\ Cont(b[2])
              /\ (c = 240 => b[2] >= 144)
              /\ (c = 244 => b[2] <= 143)
              /\ Cont(b[3])
              /\ Cont(b[4])
              /\ IsUtf8(SubSeq(b, 5, n))
         ELSE FALSE

\* match String::from_utf8(buffer) { Ok(string) => ..., Err(_) => Err(IoError{..}) }
FromUtf8(buffer, some) ==
    IF IsUtf8(buffer.val[1])
    THEN Ok(IF some THEN <<buffer.val[1]>> ELSE buffer.val[1], Rd(buffer))
    ELSE Fail("err", "InvalidInput: Problem decoding buffer as utf8", Rd(buffer))

----------------------------------------------------------------------------
(* decode *)

\* the absence test of the optional decoders, taking every negative length
IsAbsentNegative(size) == size < 0

\* if size == -1 { Ok(None) }
IsAbsent(size) == size = -1

\* the frame's final check, with trailing bytes let through
FrameConsumedLax(limit) == limit >= 0

\* assert_eq!(limited_reader.limit(), 0)
FrameConsumed(limit) == limit = 0

\* the version check left out
ApiVersionAny(api_version) == TRUE

\* assert_eq!(api_version, 0)
ApiVersionOk(api_version) == api_version = 0

\* assert_eq!(api_key, Request::api_key(None::<T>))
ApiKeyOk(t, key) == key = api_key(t)

\* String::decode; protocol.rs asserts size >= 0 after read_exact, types.rs not at all
StringDecode(s, buf, rd, end) ==
    LET size == ReadInt(buf, rd, end, 2) IN
    IF size.kind # "ok" THEN size
    ELSE LET buffer == ReadExact(buf, Rd(size), end, AsUint(size.val[1])) IN
         IF buffer.kind # "ok" THEN buffer
         ELSE IF s = "protocol" /\ ~(size.val[1] >= 0)
         THEN Fail("panic", "assertion failed: size >= 0", Rd(buffer))
         ELSE FromUtf8(buffer, FALSE)

\* Option<String>::decode; protocol.rs asserts size >= -1 first
OptionStringDecode(s, buf, rd, end) ==
    LET size == ReadInt(buf, rd, end, 2) IN
    IF size.kind # "ok" THEN size
    ELSE IF s = "protocol" /\ ~(size.val[1] >= -1)
    THEN Fail("panic", "assertion failed: size >= -1", Rd(size))
    ELSE IF IsAbsent(size.val[1]) THEN Ok(<<>>, Rd(size))
    ELSE LET buffer == ReadExact(buf, Rd(size), end, AsUint(size.val[1])) IN
         IF buffer.kind # "ok" THEN buffer ELSE FromUtf8(buffer, TRUE)

\* Vec<u8>::decode; protocol.rs asserts size >= 0 first
VecU8Decode(s, buf, rd, end) ==
    LET size == ReadInt(buf, rd, end, 4) IN
    IF size.kind # "ok" THEN size
    ELSE IF s = "protocol" /\ ~(size.val[1] >= 0)
    THEN Fail("panic", "assertion failed: size >= 0", Rd(size))
    ELSE ReadExact(buf, Rd(size), end, AsUint(size.val[1]))

\* Option<Vec<u8>>::decode; protocol.rs asserts size >= -1 first
OptionVecU8Decode(s, buf, rd, end) ==
    LET size == ReadInt(buf, rd, end, 4) IN
    IF size.kind # "ok" THEN size
    ELSE IF s = "protocol" /\ ~(size.val[1] >= -1)
    THEN Fail("panic", "assertion failed: size >= -1", Rd(size))
    ELSE IF IsAbsent(size.val[1]) THEN Ok(<<>>, Rd(size))
    ELSE LET vec == ReadExact(buf, Rd(size), end, AsUint(size.val[1])) IN
         IF vec.kind # "ok" THEN vec ELSE Ok(<<vec.val[1]>>, Rd(vec))

RECURSIVE Decode(_, _, _, _, _), DecodeN(_, _, _, _, _, _, _),
          DecodeFields(_, _, _, _, _, _, _)

RECURSIVE DecodeNPartial(_, _, _, _, _, _, _)
\* the loop left at the first element that fails, keeping the elements pushed
DecodeNPartial(s, t, buf, rd, end, k, result) ==
    IF k <= 0 THEN Ok(result, rd)
    ELSE LET e == Decode(s, t, buf, rd, end) IN
         IF e.kind # "ok" THEN Ok(result, rd)
         ELSE DecodeNPartial(s, t, buf, Rd(e), end, k - 1, Append(result, e.val[1]))

\* for _ in range(0, size) { result.push(try!(KafkaSerializable::decode(reader))) }
DecodeN(s, t, buf, rd, end, k, result) ==
    IF k <= 0 THEN Ok(result, rd)
    ELSE LET e == Decode(s, t, buf, rd, end) IN
         IF e.kind # "ok" THEN e
         ELSE DecodeN(s, t, buf, Rd(e), end, k - 1, Append(result, e.val[1]))

\* Ok($Name { $($name: try!(KafkaSerializable::decode(reader)),)+ }) from field i on
DecodeFields(s, t, buf, rd, end, i, result) ==
    IF i > NFields(t) THEN Ok(result, rd)
    ELSE LET f == Decode(s, FieldType(t, i), buf, rd, end) IN
         IF f.kind # "ok" THEN f
         ELSE DecodeFields(s, t, buf, Rd(f), end, i + 1, Append(result, f.val[1]))

\* Vec<T>::decode with no assertion and Vec::new() for Vec::with_capacity
VecDecodeNoCheck(s, t, buf, rd, end) ==
    LET size == ReadInt(buf, rd, end, 4) IN
    IF size.kind # "ok" THEN size
    ELSE DecodeN(s, t, buf, Rd(size), end, size.val[1], <<>>)

\* Vec<T>::decode; protocol.rs asserts size >= 0 first
VecDecode(s, t, buf, rd, end) ==
    LET size == ReadInt(buf, rd, end, 4) IN
    IF size.kind # "ok" THEN size
    ELSE IF s = "protocol" /\ ~(size.val[1] >= 0)
    THEN Fail("panic", "assertion failed: size >= 0", Rd(size))
    ELSE LET cap == WithCapacity(t, AsUint(size.val[1])) IN
         IF cap # "ok" THEN Fail(cap, "Vec::with_capacity", Rd(size))
         ELSE DecodeN(s, t, buf, Rd(size), end, size.val[1], <<>>)

\* the envelope decoded and returned whatever the frame has left
RequestOrResponseDecodeNoAssert(s, t, buf, rd, end) ==
    LET size == ReadInt(buf, rd, end, 4) IN
    IF size.kind # "ok" THEN size
    ELSE Decode(s, t, buf, Rd(size), Min(end, size.pos + AsUint(size.val[1])))

\* RequestOrResponse<T>::decode
RequestOrResponseDecode(s, t, buf, rd, end) ==
    LET size == ReadInt(buf, rd, end, 4) IN
    IF size.kind # "ok" THEN size
    ELSE LET limit == AsUint(size.val[1])
             result == Decode(s, t, buf, Rd(size), Min(end, size.pos + limit)) IN
         IF result.kind # "ok" THEN result
         ELSE IF ~FrameConsumed(limit - (result.pos - size.pos))
         THEN Fail("panic", "assertion failed: limited_reader.limit() == 0", Rd(result))
         ELSE result

\* WithSize<T>::decode
WithSizeDecode(s, t, buf, rd, end) ==
    LET size == ReadInt(buf, rd, end, 4) IN
    IF size.kind # "ok" THEN size
    ELSE LET limit == AsUint(size.val[1])
             result == Decode(s, t, buf, Rd(size), Min(end, size.pos + limit)) IN
         IF result.kind # "ok" THEN result
         ELSE IF ~FrameConsumed(limit - (result.pos - size.pos))
         THEN Fail("panic", "assertion failed: limited_reader.limit() == 0", Rd(result))
         ELSE result

\* RequestMessage<T>::decode
RequestMessageDecode(s, t, buf, rd, end) ==
    LET key == ReadInt(buf, rd, end, 2) IN
    IF key.kind # "ok" THEN key
    ELSE IF ~ApiKeyOk(t, key.val[1])
    THEN Fail("panic", "assertion failed: api_key == Request::api_key", Rd(key))
    ELSE LET version == ReadInt(buf, Rd(key), end, 2) IN
         IF version.kind # "ok" THEN version
         ELSE IF ~ApiVersionOk(version.val[1])
         THEN Fail("panic", "assertion failed: api_version == 0", Rd(version))
         ELSE LET correlation_id == Decode(s, I32, buf, Rd(version), end) IN
              IF correlation_id.kind # "ok" THEN correlation_id
              ELSE LET client_id == Decode(s, Str, buf, Rd(correlation_id), end) IN
                   IF client_id.kind # "ok" THEN client_id
                   ELSE LET message == Decode(s, t, buf, Rd(client_id), end) IN
                        IF message.kind # "ok" THEN message
                        ELSE Ok(<<correlation_id.val[1], client_id.val[1],
                                  message.val[1]>>, Rd(message))

\* ResponseMessage<T>::decode
ResponseMessageDecode(s, t, buf, rd, end) ==
    LET correlation_id == Decode(s, I32, buf, rd, end) IN
    IF correlation_id.kind # "ok" THEN correlation_id
    ELSE LET response == Decode(s, t, buf, Rd(correlation_id), end) IN
         IF response.kind # "ok" THEN response
         ELSE Ok(<<correlation_id.val[1], response.val[1]>>, Rd(response))

Decode(s, t, buf, rd, end) ==
    CASE IsPrim(t) -> ReadInt(buf, rd, end, Width(t))
      [] t[1] = "String" -> StringDecode(s, buf, rd, end)
      [] t[1] = "Option<String>" -> OptionStringDecode(s, buf, rd, end)
      [] t[1] = "Vec<u8>" -> VecU8Decode(s, buf, rd, end)
      [] t[1] = "Option<Vec<u8>>" -> OptionVecU8Decode(s, buf, rd, end)
      [] t[1] = "Vec" -> VecDecode(s, t[2], buf, rd, end)
      [] t[1] = "WithSize" -> WithSizeDecode(s, t[2], buf, rd, end)
      [] t[1] = "RequestOrResponse" -> RequestOrResponseDecode(s, t[2], buf, rd, end)
      [] t[1] = "RequestMessage" -> RequestMessageDecode(s, t[2], buf, rd, end)
      [] t[1] = "ResponseMessage" -> ResponseMessageDecode(s, t[2], buf, rd, end)
      [] IsStruct(t) -> DecodeFields(s, t, buf, rd, end, 1, <<>>)

\* KafkaSerializable::decode(&mut MemReader::new(buf))
DecodeFrom(s, t, buf) == Decode(s, t, buf, NewReader, Len(buf))

----------------------------------------------------------------------------
(* Error *)

\* enum Error { Unknown = -1, NoError = 0, ... }: the discriminants
ErrorCode ==
    [ Unknown |-> -1, NoError |-> 0, OffsetOutOfRange |-> 1, InvalidMessage |-> 2,
      UnknownTopicOrPartition |-> 3, InvalidMessageSize |-> 4, LeaderNotAvailable |-> 5,
      NotLeaderForPartition |-> 6, RequestTimedOut |-> 7, BrokerNotAvailable |-> 8,
      ReplicaNotAvailable |-> 9, MessageSizeTooLarge |-> 10,
      StaleControllerEpochCode |-> 11, OffsetMetadataTooLargeCode |-> 12,
      OffsetsLoadInProgressCode |-> 14, ConsumerCoordinatorNotAvailableCode |-> 15,
      NotCoordinatorForConsumerCode |-> 16 ]

\* the arms of from_i64's match, but for the wildcard
MatchArms ==
    { <<0, "NoError">>, <<1, "OffsetOutOfRange">>, <<2, "InvalidMessage">>,
      <<3, "UnknownTopicOrPartition">>, <<4, "InvalidMessageSize">>,
      <<5, "LeaderNotAvailable">>, <<6, "NotLeaderForPartition">>,
      <<7, "RequestTimedOut">>, <<8, "BrokerNotAvailable">>,
      <<9, "ReplicaNotAvailable">>, <<10, "MessageSizeTooLarge">>,
      <<11, "StaleControllerEpochCode">>, <<12, "OffsetMetadataTooLargeCode">>,
      <<14, "OffsetsLoadInProgressCode">>,
      <<15, "ConsumerCoordinatorNotAvailableCode">>,
      <<16, "NotCoordinatorForConsumerCode">>, <<-1, "Unknown">> }

\* from_i64 with the wildcard arm falling back to Unknown
from_i64_default(n) ==
    IF \E arm \in MatchArms : arm[1] = n
    THEN <<(CHOOSE arm \in MatchArms : arm[1] = n)[2]>>
    ELSE <<"Unknown">>

\* impl FromPrimitive for Error: from_i64; <<>> is None
from_i64(n) ==
    IF \E arm \in MatchArms : arm[1] = n
    THEN <<(CHOOSE arm \in MatchArms : arm[1] = n)[2]>>
    ELSE <<>>

ErrorType == <<"Error">>

----------------------------------------------------------------------------
(* The values the operations are run on *)

\* "a" and the two bytes of U+00E9
Chars == { <<97>>, <<195, 169>> }

RECURSIVE StringsOfLen(_)
StringsOfLen(k) ==
    IF k = 0 THEN { <<>> } ELSE { c \o s : c \in Chars, s \in StringsOfLen(k - 1) }

Client == <<67, 108, 105, 101, 110, 116>>
test == <<116, 101, 115, 116>>
Interesting == <<73, 110, 116, 101, 114, 101, 115, 116, 105, 110, 103>>

Strings == UNION { StringsOfLen(k) : k \in 0..MaxLen } \cup { Client, test, Interesting }

RECURSIVE BytesOfLen(_)
BytesOfLen(k) ==
    IF k = 0 THEN { <<>> } ELSE { <<b>> \o s : b \in {0, 255}, s \in BytesOfLen(k - 1) }

ByteVecs == UNION { BytesOfLen(k) : k \in 0..MaxBytes } \cup { <<0, 1, 2, 3, 4, 5, 6, 7, 8, 9, 10>> }

MinI32 == -2147483647 - 1

Cyc(seq, i) == seq[((i - 1) % Len(seq)) + 1]

RECURSIVE Sample(_, _)
\* the i-th sample value of type t
Sample(t, i) ==
    CASE t[1] = "i8" -> Cyc(<<0, -1, 127, -128, 5>>, i)
      [] t[1] = "i16" -> Cyc(<<0, -1, 258, -32768, 32767>>, i)
      [] t[1] = "i32" -> Cyc(<<0, 16909060, -1, MinI32, 9092>>, i)
      [] t[1] = "i64" -> Cyc(<<0, -2, 2147483647, 1, MinI32>>, i)
      [] t[1] = "String" -> Cyc(<< <<>>, <<97>>, test, <<195, 169, 97>> >>, i)
      [] t[1] = "Option<String>" -> Cyc(<< <<>>, << <<97>> >>, << <<>> >>, <<test>> >>, i)
      [] t[1] = "Vec<u8>" -> Cyc(<< <<>>, <<7>>, <<0, 255>>, <<1, 2, 3>> >>, i)
      [] t[1] = "Option<Vec<u8>>" -> Cyc(<< <<>>, << <<7>> >>, << <<>> >>, << <<0, 255>> >> >>, i)
      [] t[1] = "Vec" -> [j \in 1..((i - 1) % (MaxVec + 1)) |-> Sample(t[2], i + j - 1)]
      [] t[1] \in {"WithSize", "RequestOrResponse"} -> Sample(t[2], i)
      [] t[1] = "RequestMessage" -> <<Sample(I32, i), Sample(Str, i), Sample(t[2], i)>>
      [] t[1] = "ResponseMessage" -> <<Sample(I32, i), Sample(t[2], i)>>
      [] IsStruct(t) -> [f \in 1..NFields(t) |->
                            Sample(FieldType(t, f),
                                   IF Len(FieldType(t, f)) = 1 /\ ~IsStruct(FieldType(t, f))
                                   THEN i + f - 1 ELSE i)]

\* tests::test_full_metadata_request: the request and its type
FullMetadataType == RequestOrResponseOf(RequestMessageOf(St("MetadataRequest")))
FullMetadataRequest == <<0, Client, << <<test>> >> >>

Values(t) ==
    CASE t[1] = "i8" -> -128..127
      [] t[1] = "i16" -> (-10..9) \cup {-32768, -257, 255, 256, 32767}
      [] t[1] = "i32" -> (-10..9) \cup {MinI32, -65537, 65536, 2147483647}
      [] t[1] = "i64" -> (-10..9) \cup {MinI32, 2147483647}
      [] t[1] = "String" -> Strings
      [] t[1] = "Option<String>" -> { <<>> } \cup { <<s>> : s \in Strings }
      [] t[1] = "Vec<u8>" -> ByteVecs
      [] t[1] = "Option<Vec<u8>>" -> { <<>> } \cup { <<b>> : b \in ByteVecs }
      [] t[1] = "Error" -> -3..22
      [] OTHER -> { Sample(t, i) : i \in 1..NSamples }
                    \cup (IF t = FullMetadataType THEN {FullMetadataRequest} ELSE {})

\* the types types.rs implements KafkaSerializable for, and vectors of them
PlainTypes ==
    { I8, I16, I32, I64, Str, OptStr, Bytes, OptBytes,
      VecOf(I8), VecOf(I16), VecOf(Str), VecOf(OptStr), VecOf(Bytes), VecOf(VecOf(I32)) }

\* frames, alone, in vectors and in frames
FrameTypes ==
    { WithSizeOf(Bytes), WithSizeOf(Str), WithSizeOf(OptStr), WithSizeOf(VecOf(I16)),
      WithSizeOf(WithSizeOf(Bytes)), WithSizeOf(VecOf(WithSizeOf(Str))),
      WithSizeOf(St("Message")), WithSizeOf(St("MessageSet")) }

StructTypes == { St(n) : n \in StructNames }

EnvelopeTypes ==
    { RequestMessageOf(t) : t \in RequestTypes }
        \cup { ResponseMessageOf(t) : t \in ResponseTypes }

TopLevelTypes == { RequestOrResponseOf(t) : t \in EnvelopeTypes }

TypesOf(s) ==
    IF s = "types" THEN PlainTypes
    ELSE PlainTypes \cup { VecOf(WithSizeOf(Bytes)) } \cup FrameTypes \cup StructTypes
            \cup EnvelopeTypes \cup TopLevelTypes \cup { ErrorType }

IsFrame(t) == t[1] \in {"WithSize", "RequestOrResponse"}
HasLength(t) == t[1] \in {"String", "Option<String>", "Vec<u8>", "Option<Vec<u8>>", "Vec"}
LengthWidth(t) == IF t[1] \in {"String", "Option<String>"} THEN 2 ELSE 4
IsRequest(t) ==
    \/ t[1] = "RequestMessage"
    \/ t[1] = "RequestOrResponse" /\ t[2][1] = "RequestMessage"

Drop(seq, n) == SubSeq(seq, n + 1, Len(seq))

\* length fields written in place of the encoder's
Lengths == {-32768, -3, -2, -1, 0, 1, 2, 3}

\* the frame that follows on the stream: WithSize(vec![7u8, 9u8])
NextFrame == <<0, 0, 0, 6, 0, 0, 0, 2, 7, 9>>

\* byte sequences that are not UTF-8, and one that is
Payloads == { <<255>>, <<128>>, <<195>>, <<195, 40>>, <<192, 128>>, <<226, 130>>,
              <<237, 160, 128>>, <<226, 130, 172>> }

NoResult == [kind |-> "none", val |-> <<>>, pos |-> 0, log |-> <<>>, desc |-> ""]

----------------------------------------------------------------------------
(* The operations *)

Init ==
    /\ src \in {"protocol", "types"}
    /\ ty \in TypesOf(src)
    /\ val \in Values(ty)
    /\ pc = "init"
    /\ op = "none"
    /\ wire = <<>>
    /\ sized = 0
    /\ input = <<>>
    /\ arg = <<>>
    /\ res = NoResult

\* input.encode(&mut writer), and input.size()
EncodeValue ==
    /\ pc = "init"
    /\ ty # ErrorType
    /\ wire' = Encode(ty, val)
    /\ sized' = Size(ty, val)
    /\ pc' = "encoded"
    /\ op' = "encode"
    /\ UNCHANGED <<src, ty, val, input, arg, res>>

Decoded(name, bytes, a) ==
    /\ pc = "encoded"
    /\ input' = bytes
    /\ arg' = a
    /\ res' = DecodeFrom(src, ty, bytes)
    /\ op' = name
    /\ pc' = "done"
    /\ UNCHANGED <<src, ty, val, wire, sized>>

\* write_read_test: decode what encode wrote
WriteRead == Decoded("write_read", wire, <<>>)

\* decode a frame whose declared length is len, with or without a frame after it
DecodeFrameLength ==
    /\ IsFrame(ty)
    /\ \E len \in {sized - 5, sized - 4, sized - 3} \cup Lengths, next \in { <<>>, NextFrame } :
          Decoded("frame_length", WriteBE(len, 4) \o Drop(wire, 4) \o next,
                  [len |-> len, payload |-> sized - 4, next |-> Len(next)])

\* decode a string, byte array or vector whose length field is len
DecodeLength ==
    /\ HasLength(ty)
    /\ \E len \in Lengths :
          Decoded("length", WriteBE(len, LengthWidth(ty)) \o Drop(wire, LengthWidth(ty)),
                  [len |-> len])

\* decode a string whose bytes end in bytes that need not be UTF-8
DecodePayload ==
    /\ ty[1] \in {"String", "Option<String>"}
    /\ \E p \in Payloads :
          LET bytes == Drop(wire, 2) \o p IN
          Decoded("payload", WriteBE(Len(bytes), 2) \o bytes, [payload |-> bytes])

\* decode a request whose api key and api version are key and version
DecodeRequestHeader ==
    /\ IsRequest(ty)
    /\ \E key \in {-1, 0, 1, 2, 3, 4, 8, 9, 10, 11, 768}, version \in {-1, 0, 1, 256} :
          LET off == IF ty[1] = "RequestOrResponse" THEN 4 ELSE 0 IN
          Decoded("header",
                  SubSeq(wire, 1, off) \o WriteBE(key, 2) \o WriteBE(version, 2)
                      \o Drop(wire, off + 4),
                  [key |-> key, version |-> version, off |-> off,
                   request |-> IF off = 4 THEN ty[2][2] ELSE ty[2]])

\* decode the first n bytes of what encode wrote
DecodePrefix ==
    \E n \in 0..(Len(wire) - 1) : Decoded("prefix", SubSeq(wire, 1, n), [len |-> n])

\* FromPrimitive::from_i64(n)
FromI64 ==
    /\ pc = "init"
    /\ ty = ErrorType
    /\ res' = [NoResult EXCEPT !.kind = "ok", !.val = <<from_i64(val)>>]
    /\ op' = "from_i64"
    /\ pc' = "done"
    /\ UNCHANGED <<src, ty, val, wire, sized, input, arg>>

Next ==
    \/ EncodeValue
    \/ WriteRead
    \/ DecodeFrameLength
    \/ DecodeLength
    \/ DecodePayload
    \/ DecodeRequestHeader
    \/ DecodePrefix
    \/ FromI64

Spec == Init /\ [][Next]_vars

----------------------------------------------------------------------------
(* Strings as long as the i16 length field can and cannot hold *)

\* byte lengths about the ends of the i16 range and of its modulus
LongLengths ==
    {0, 1, 2, 127, 128, 255, 256, 257, 32766, 32767, 32768, 32769, 40000,
     65534, 65535, 65536, 65537}

\* a string of n bytes, each "a"
LongString(n) == [i \in 1..n |-> 97]

InitLong ==
    /\ src \in {"protocol", "types"}
    /\ ty \in {Str, OptStr}
    /\ val \in IF ty = Str THEN { LongString(n) : n \in LongLengths }
               ELSE { <<>> } \cup { <<LongString(n)>> : n \in LongLengths }
    /\ pc = "init"
    /\ op = "none"
    /\ wire = <<>>
    /\ sized = 0
    /\ input = <<>>
    /\ arg = <<>>
    /\ res = NoResult

\* encode alone: these strings are written, never read back
NextLong == EncodeValue

SpecLong == InitLong /\ [][NextLong]_vars

----------------------------------------------------------------------------
(* Properties *)

DecodeOps == {"write_read", "frame_length", "length", "payload", "header", "prefix"}

RECURSIVE Dual(_, _)
\* encode(v) writes size(v) bytes, for v and for every value inside v
Dual(t, v) ==
    /\ Len(Encode(t, v)) = Size(t, v)
    /\ CASE t[1] = "Vec" -> \A j \in 1..Len(v) : Dual(t[2], v[j])
         [] IsFrame(t) -> Dual(t[2], v)
         [] t[1] = "RequestMessage" -> Dual(Str, v[2]) /\ Dual(t[2], v[3])
         [] t[1] = "ResponseMessage" -> Dual(t[2], v[2])
         [] IsStruct(t) -> \A f \in 1..NFields(t) : Dual(FieldType(t, f), v[f])
         [] OTHER -> TRUE

\* C1: encode writes exactly size() bytes, for every value and every value
\* inside it, and the length a frame writes first is the number of bytes
\* that follow it.
C1_SizeEncodeDuality ==
    op \in {"encode"} \cup DecodeOps =>
        /\ Len(wire) = sized
        /\ Dual(ty, val)
        /\ IsFrame(ty) => ReadBE(SubSeq(wire, 1, 4)) = Len(wire) - 4

C1_Witness ==
    /\ op = "encode"
    /\ ty = WithSizeOf(VecOf(WithSizeOf(Str)))
    /\ Len(val) = 2
    /\ Len(wire) = sized
    /\ ReadBE(SubSeq(wire, 1, 4)) = Len(wire) - 4

\* C2: decoding what encode wrote succeeds, returns the value encoded, and
\* consumes exactly size() bytes, which is all of the input.
C2_RoundTrip ==
    op = "write_read" =>
        /\ res.kind = "ok"
        /\ res.val = <<val>>
        /\ res.pos = sized
        /\ res.pos = Len(input)

C2_Witness ==
    /\ op = "write_read"
    /\ ty = St("ProduceRequest")
    /\ Len(val[3]) > 0
    /\ res.kind = "ok"
    /\ res.val = <<val>>
    /\ res.pos = Len(input)

\* C3: a frame whose declared length is the payload's size plus or minus
\* one never decodes to a value: one too large fails on the remainder left in
\* the bounded reader, one too small makes the inner decode run out of bytes.
C3_FrameOffByOne ==
    op = "frame_length" =>
        /\ arg.len = arg.payload + 1 =>
              /\ res.kind = "panic"
              /\ res.desc = "assertion failed: limited_reader.limit() == 0"
        /\ arg.len = arg.payload - 1 =>
              /\ res.kind = "err"
              /\ res.desc = "EndOfFile"

C3_Witness ==
    /\ op = "frame_length"
    /\ ty[1] = "RequestOrResponse"
    /\ arg.len = arg.payload + 1
    /\ arg.next > 0
    /\ res.kind = "panic"

\* C4: decoding a frame that declares length L never returns a value when
\* L is negative, and reads at most L bytes (none for a negative L) after
\* the length field, whether it succeeds or fails.
C4_FrameBoundary ==
    op = "frame_length" =>
        /\ arg.len < 0 => res.kind # "ok"
        /\ res.pos <= 4 + (IF arg.len >= 0 THEN arg.len ELSE 0)

\* C5: an optional string or byte array whose length field is -1 decodes
\* to None and reads no payload, one whose length field is 0 decodes to
\* Some of the empty value, and one whose length field is below -1 never
\* decodes to a value.
C5_SentinelBoundaries ==
    op = "length" /\ ty \in {OptStr, OptBytes} =>
        /\ arg.len = -1 =>
              /\ res.kind = "ok"
              /\ res.val = << <<>> >>
              /\ res.pos = LengthWidth(ty)
              /\ Len(res.log) = 1
        /\ arg.len = 0 =>
              /\ res.kind = "ok"
              /\ res.val = << << <<>> >> >>
              /\ res.pos = LengthWidth(ty)
        /\ arg.len < -1 => res.kind # "ok"

C5_Witness ==
    /\ op = "length"
    /\ ty = OptBytes
    /\ arg.len = -1
    /\ Len(input) > 4
    /\ res.kind = "ok"
    /\ res.val = << <<>> >>

\* the api keys the claim lists
ClaimedApiKey ==
    [ ProduceRequest |-> 0, FetchRequest |-> 1, OffsetRequest |-> 2,
      MetadataRequest |-> 3, OffsetCommitRequest |-> 8, OffsetFetchRequest |-> 9,
      ConsumerMetadataRequest |-> 10 ]

\* C6: decoding a request never returns a value when the api key read is
\* not the key of the request type or the api version read is not 0; a
\* wrong key stops the decode with nothing but the key read, a wrong version
\* with nothing but key and version read.
C6_EnvelopeCheck ==
    op = "header" =>
        LET expected == ClaimedApiKey[arg.request[1]] IN
        /\ (arg.key # expected \/ arg.version # 0) => res.kind # "ok"
        /\ arg.key # expected => res.pos = arg.off + 2
        /\ (arg.key = expected /\ arg.version # 0) => res.pos = arg.off + 4

C6_Witness ==
    /\ op = "header"
    /\ arg.request = St("OffsetCommitRequest")
    /\ arg.key = 8
    /\ arg.version = 1
    /\ res.kind = "panic"
    /\ res.pos = arg.off + 4

\* the codes the claim lists as assigned
AssignedCodes == {-1} \cup (0..12) \cup {14, 15, 16}

\* C7: from_i64(n) is the symbol whose code is n for the assigned codes
\* (NoError for 0, Unknown for -1) and None for every other n, 13 and 20
\* among them; a symbol's code is the n it was resolved from.
C7_ErrorResolution ==
    op = "from_i64" =>
        LET e == res.val[1] IN
        /\ res.kind = "ok"
        /\ val \in AssignedCodes => e # <<>> /\ ErrorCode[e[1]] = val
        /\ val \notin AssignedCodes => e = <<>>
        /\ val = 0 => e = <<"NoError">>
        /\ val = -1 => e = <<"Unknown">>

C7_Witness ==
    /\ op = "from_i64"
    /\ val = 13
    /\ res.val = << <<>> >>

\* tests::test_full_metadata_request: expected
ExpectedBytes ==
    <<0, 0, 0, 26,
      0, 3,
      0, 0,
      0, 0, 0, 0,
      0, 6, 67, 108, 105, 101, 110, 116,
      0, 0, 0, 1,
      0, 4, 116, 101, 115, 116>>

\* C8: the metadata request of test_full_metadata_request encodes to the 30
\* expected bytes, and they decode to the request.
C8_FullMetadataRequest ==
    (ty = FullMetadataType /\ val = FullMetadataRequest /\ op # "none") =>
        /\ wire = ExpectedBytes
        /\ Len(wire) = 30
        /\ op = "write_read" => res.kind = "ok" /\ res.val = <<FullMetadataRequest>>

C8_Witness ==
    /\ ty = FullMetadataType
    /\ val = FullMetadataRequest
    /\ op = "write_read"
    /\ input = ExpectedBytes
    /\ res.kind = "ok"

\* C9: a decode that does not return a value returns an Err: it neither
\* panics nor aborts.
C9_FailuresAreErr ==
    (op \in DecodeOps /\ res.kind # "ok") => res.kind = "err"

\* C10: String::decode, given a negative length field, fails having read
\* the length field and requested nothing else, and given bytes that are not
\* UTF-8 returns an Err.
C10_StringLengthCheckedFirst ==
    ty = Str =>
        /\ (op = "length" /\ arg.len < 0) => res.kind # "ok" /\ res.log = <<2>>
        /\ (op = "payload" /\ ~IsUtf8(arg.payload)) => res.kind = "err"

\* the types of the elements of the vector v of type t
ElemTypes(t, v) == [j \in 1..Len(v) |-> t[2]]

RECURSIVE OffsetOf(_, _, _)
\* the sizes of the first k - 1 of the values v, of types tps, added up
OffsetOf(tps, v, k) ==
    IF k <= 1 THEN 0 ELSE OffsetOf(tps, v, k - 1) + Size(tps[k - 1], v[k - 1])

\* C11: Vec<T>::encode writes the count as an i32 and then the elements in
\* order (4 bytes of 0 for the empty vector); Vec<T>::decode never returns
\* a value for a negative count, and for a count it can satisfy returns
\* exactly that many elements, in wire order.
C11_SequenceCodec ==
    ty[1] = "Vec" =>
        /\ op # "none" =>
              /\ ReadBE(SubSeq(wire, 1, 4)) = Len(val)
              /\ \A j \in 1..Len(val) :
                    LET off == 4 + OffsetOf(ElemTypes(ty, val), val, j) IN
                    SubSeq(wire, off + 1, off + Size(ty[2], val[j])) = Encode(ty[2], val[j])
              /\ Len(wire) = 4 + OffsetOf(ElemTypes(ty, val), val, Len(val) + 1)
              /\ val = <<>> => wire = <<0, 0, 0, 0>>
        /\ op = "length" =>
              /\ arg.len < 0 => res.kind # "ok"
              /\ arg.len \in 0..Len(val) => res.kind = "ok"
              /\ res.kind = "ok" => res.val[1] = SubSeq(val, 1, arg.len)
        /\ op = "write_read" => res.kind = "ok" /\ res.val = <<val>>

C11_Witness ==
    /\ ty = VecOf(Str)
    /\ src = "types"
    /\ op = "length"
    /\ arg.len = -1
    /\ Len(val) = 2
    /\ res.kind = "panic"

\* the types of the fields of the struct type t
FieldTypes(t) == [f \in 1..NFields(t) |-> FieldType(t, f)]

\* C12: a derived struct's bytes are its fields' encodings in declared
\* order, each field decodes from where the field before it ended to the
\* field's value, size() is the sum of the fields' sizes, and decoding the
\* bytes returns the fields in the same order.
C12_SchemaDerivation ==
    (IsStruct(ty) /\ op # "none") =>
        LET tps == FieldTypes(ty) IN
        /\ sized = OffsetOf(tps, val, NFields(ty) + 1)
        /\ Len(wire) = OffsetOf(tps, val, NFields(ty) + 1)
        /\ \A f \in 1..NFields(ty) :
              LET off == OffsetOf(tps, val, f)
                  r == Decode(src, tps[f], wire, [pos |-> off, log |-> <<>>], Len(wire)) IN
              /\ SubSeq(wire, off + 1, off + Size(tps[f], val[f])) = Encode(tps[f], val[f])
              /\ r.kind = "ok"
              /\ r.val = <<val[f]>>
              /\ r.pos = OffsetOf(tps, val, f + 1)
        /\ op = "write_read" => res.kind = "ok" /\ res.val = <<val>>

C12_Witness ==
    /\ ty = St("Broker")
    /\ op = "write_read"
    /\ Len(val[2]) > 0
    /\ res.kind = "ok"
    /\ res.val = <<val>>
    /\ res.pos = Len(wire)

\* C13: decoding a strict prefix of what encode wrote (the empty input
\* too) returns Err(EndOfFile) and no value; no decode that fails returns a
\* value, whatever it had decoded before the failure.
C13_TruncationFails ==
    /\ op = "prefix" =>
          /\ res.kind = "err"
          /\ res.desc = "EndOfFile"
          /\ res.val = <<>>
          /\ res.pos = Len(input)
    /\ (op \in DecodeOps /\ res.kind # "ok") => res.val = <<>>

C13_Witness ==
    /\ op = "prefix"
    /\ ty = St("MetadataResponse")
    /\ Len(val[1]) = 2
    /\ arg.len = Len(wire) - 1
    /\ Len(res.log) > 4
    /\ res.kind = "err"
    /\ res.val = <<>>

\* the string of a String or of a Some(String)
StringOf(t, v) == IF t = Str THEN v ELSE v[1]

IsPresentString == ty \in {Str, OptStr} /\ op # "none" /\ (ty = OptStr => val # <<>>)

\* the length field at the head of the bytes written
LengthField == ReadBE(SubSeq(wire, 1, 2))

\* C14 as claimed: a string's length field is its byte length, and that of
\* a Some(s) is never -1, whatever the byte length.
C14_LengthFieldIsLength ==
    IsPresentString =>
        /\ LengthField = Len(StringOf(ty, val))
        /\ ty = OptStr => LengthField # -1

\* C14: up to 32767 bytes a string's length field is its byte length and
\* that of a Some(s) is not -1; for every byte length the field is the
\* length cast to i16 (equal to it modulo 2^16), all the string's bytes
\* follow it, and size() counts them all.
C14_LengthFieldIsCast ==
    IsPresentString =>
        LET n == Len(StringOf(ty, val)) IN
        /\ LengthField \in -32768..32767
        /\ (LengthField - n) % 65536 = 0
        /\ n <= 32767 => LengthField = n /\ LengthField # -1
        /\ Drop(wire, 2) = StringOf(ty, val)
        /\ Len(wire) = 2 + n
        /\ sized = 2 + n

C14_Witness ==
    /\ ty = OptStr
    /\ op = "encode"
    /\ val # <<>>
    /\ Len(val[1]) = 65535
    /\ LengthField = -1
    /\ Len(wire) = 65537
    /\ sized = 65537

\* C15: RequestOrResponse(m) has the size and the bytes of WithSize(m), and
\* on every input WithSize<T>::decode ends as RequestOrResponse<T>::decode
\* did: the same payload or the same failure, at the same position.
C15_SameCodecAsWithSize ==
    (ty[1] = "RequestOrResponse" /\ op # "none") =>
        LET w == WithSizeOf(ty[2]) IN
        /\ Size(w, val) = sized
        /\ Encode(w, val) = wire
        /\ op \in DecodeOps =>
              LET r == DecodeFrom(src, w, input) IN
              /\ r.kind = res.kind
              /\ r.val = res.val
              /\ r.pos = res.pos
              /\ r.desc = res.desc

C15_Witness ==
    /\ ty = RequestOrResponseOf(ResponseMessageOf(St("MetadataResponse")))
    /\ op = "frame_length"
    /\ arg.len = arg.payload + 1
    /\ arg.next > 0
    /\ res.kind = "panic"
    /\ DecodeFrom(src, WithSizeOf(ty[2]), input).kind = "panic"

====
